---- MODULE Spec2Model ----
(***************************************************************************)
(* A model of the bundle package: the text classifier (text_kind.py), the  *)
(* grid layout wrapper (grid_layout.py), the button factory                *)
(* (maya_bundler.py) and the drop handler of the bundle window             *)
(* (window.py).                                                            *)
(*                                                                         *)
(* A Python str is a sequence of one-character strings.  An exception that *)
(* leaves a function is the name of its class.                             *)
(***************************************************************************)
EXTENDS Integers, Sequences, FiniteSets, TLC

VARIABLES
    text,       \* the str handed to classify_text / button_factory / a drop
    pathlib,    \* which pathlib flavour Path is in this build
    kind,       \* what classify_text returned (or raised)
    button,     \* what button_factory returned
    items,      \* the layout's items, in insertion order (getItemPosition)
    calls,      \* the insertion methods called on the layout so far
    ret,        \* what the last insertion method returned
    query,      \* the arguments of the last query method called
    answer,     \* what the last query method returned
    cur_col,    \* BundleWindow._cur_col
    event       \* what dropEvent did with its event

vars == <<text, pathlib, kind, button, items, calls, ret, query, answer,
          cur_col, event>>

(***************************************************************************)
(* Bounds.                                                                 *)
(***************************************************************************)
\* The longest text classified.
MaxLen == 4

\* The queries are put to layouts of up to MaxItems items, each within rows
\* 0..MaxRow and columns 0..MaxCol.
MaxItems == 2

MaxRow == 1

MaxCol == 2

\* The most insertions into a layout that starts empty.
MaxCalls == 5

\* The most buttons dropped into a window.
MaxDrops == 22

\* The characters texts are drawn from.
Alphabet == {"a", "/", "\\", "|", ":", " ", "\n", ".", ";"}

RECURSIVE StringsUpTo(_)
StringsUpTo(n) ==
    IF n = 0 THEN {<<>>}
    ELSE LET shorter == StringsUpTo(n - 1)
         IN  shorter \cup {Append(s, c) : s \in {t \in shorter : Len(t) = n - 1},
                                          c \in Alphabet}

Texts == StringsUpTo(MaxLen)

(***************************************************************************)
(* Python's str and re, as far as text_kind.py uses them.                  *)
(***************************************************************************)
Letters ==
    {"a", "b", "c", "d", "e", "f", "g", "h", "i", "j", "k", "l", "m",
     "n", "o", "p", "q", "r", "s", "t", "u", "v", "w", "x", "y", "z",
     "A", "B", "C", "D", "E", "F", "G", "H", "I", "J", "K", "L", "M",
     "N", "O", "P", "Q", "R", "S", "T", "U", "V", "W", "X", "Y", "Z"}

Digits == {"0", "1", "2", "3", "4", "5", "6", "7", "8", "9"}

\* [A-Za-z0-9_]
WordChars == Letters \cup Digits \cup {"_"}

\* What str.strip(), str.split() and \s take for whitespace.
Whitespace == {" ", "\t", "\n", "\r", "\f"}

\* Where str.splitlines() breaks.  ("\r\n" is one break there and two here;
\* the empty line between them is dropped by split_nonempty_lines.)
LineBreaks == {"\n", "\r", "\f"}

Seps == {"/", "\\"}

SetMin(S) == CHOOSE x \in S : \A y \in S : x <= y

SetMax(S) == CHOOSE x \in S : \A y \in S : y <= x

Tail_(s, i) == SubSeq(s, i, Len(s))

\* str.startswith
startswith(s, prefix) ==
    Len(s) >= Len(prefix) /\ SubSeq(s, 1, Len(prefix)) = prefix

\* tok in s
contains(s, tok) ==
    \E i \in 1..(Len(s) - Len(tok) + 1) : SubSeq(s, i, i + Len(tok) - 1) = tok

\* str.strip()
strip(s) ==
    LET keep == {i \in 1..Len(s) : s[i] \notin Whitespace}
    IN  IF keep = {} THEN <<>> ELSE SubSeq(s, SetMin(keep), SetMax(keep))

\* str.splitlines()
RECURSIVE splitlines(_)
splitlines(s) ==
    IF s = <<>> THEN <<>>
    ELSE LET brk == {i \in 1..Len(s) : s[i] \in LineBreaks}
         IN  IF brk = {} THEN <<s>>
             ELSE <<SubSeq(s, 1, SetMin(brk) - 1)>>
                  \o splitlines(Tail_(s, SetMin(brk) + 1))

\* str.split(sep), sep one character
RECURSIVE split(_, _)
split(s, sep) ==
    LET at == {i \in 1..Len(s) : s[i] = sep}
    IN  IF at = {} THEN <<s>>
        ELSE <<SubSeq(s, 1, SetMin(at) - 1)>> \o split(Tail_(s, SetMin(at) + 1), sep)

\* len(str.split()): the maximal runs of non-whitespace
split_count(s) ==
    Cardinality({i \in 1..Len(s) :
        s[i] \notin Whitespace /\ (i = 1 \/ s[i - 1] \in Whitespace)})

\* sep.join(parts)
RECURSIVE join(_, _)
join(parts, sep) ==
    IF parts = <<>> THEN <<>>
    ELSE IF Len(parts) = 1 THEN parts[1]
    ELSE parts[1] \o sep \o join(Tail(parts), sep)

\* [x for x in xs if x and x != '.']
RECURSIVE real_parts(_)
real_parts(xs) ==
    IF xs = <<>> THEN <<>>
    ELSE IF xs[1] = <<>> \/ xs[1] = <<".">> THEN real_parts(Tail(xs))
    ELSE <<xs[1]>> \o real_parts(Tail(xs))

(***************************************************************************)
(* pathlib.Path(line), as far as looks_like_file_path reads it: p.name and *)
(* str(p).  Path is PosixPath or WindowsPath with the platform, and        *)
(* WindowsPath split a path's anchor itself up to Python 3.11 and calls    *)
(* ntpath.splitroot since 3.12, so there are three builds.                 *)
(***************************************************************************)
Pathlibs == {"posix", "nt", "nt_splitroot"}

last_or_empty(parts) == IF parts = <<>> THEN <<>> ELSE parts[Len(parts)]

or_dot(s) == IF s = <<>> THEN <<".">> ELSE s

\* PurePosixPath: a root if the line starts with "/", then the parts between
\* the "/", the empty ones and the "." ones dropped.
posix_root(line) == IF startswith(line, <<"/">>) THEN <<"/">> ELSE <<>>

posix_parts(line) == real_parts(split(line, "/"))

posix_str(line) == or_dot(posix_root(line) \o join(posix_parts(line), <<"/">>))

\* PureWindowsPath: "/" is "\".  A drive is \\server\share (the share may be
\* empty, but not start with a separator) or a letter and a colon; a root is
\* the separator after it; then the parts as above.
altsep(line) == [i \in 1..Len(line) |-> IF line[i] = "/" THEN "\\" ELSE line[i]]

\* part.find(sep, from), 1-based; Len(p) + 1 if there is none
find_sep(p, from) ==
    SetMin({i \in from..Len(p) : p[i] = "\\"} \cup {Len(p) + 1})

nt_is_unc(line) ==
    LET p == altsep(line)
    IN  /\ Len(p) >= 3 /\ p[1] = "\\" /\ p[2] = "\\" /\ p[3] # "\\"
        /\ find_sep(p, 3) <= Len(p)
        /\ ~ (find_sep(p, 3) < Len(p) /\ p[find_sep(p, 3) + 1] = "\\")

nt_drive(line) ==
    LET p == altsep(line)
    IN  IF nt_is_unc(line) THEN SubSeq(p, 1, find_sep(p, find_sep(p, 3) + 1) - 1)
        ELSE IF Len(line) >= 2 /\ line[1] \in Letters /\ line[2] = ":"
        THEN SubSeq(line, 1, 2)
        ELSE <<>>

nt_rest(line) == Tail_(altsep(line), Len(nt_drive(line)) + 1)

nt_root(line) ==
    IF nt_is_unc(line) \/ startswith(nt_rest(line), <<"\\">>) THEN <<"\\">>
    ELSE <<>>

nt_parts(line) == real_parts(split(nt_rest(line), "\\"))

nt_str(line) ==
    or_dot(nt_drive(line) \o nt_root(line) \o join(nt_parts(line), <<"\\">>))

\* A line that starts with two separators: ntpath.splitroot keeps them (and
\* what follows, up to the share) as the drive, so that str(p) has two
\* characters or more; the older pathlib does so only for a drive as above.
nt_two_seps(line) ==
    Len(line) >= 2 /\ line[1] \in Seps /\ line[2] \in Seps

\* Path(line).name
path_name(line, lib) ==
    IF lib = "posix" THEN last_or_empty(posix_parts(line))
    ELSE last_or_empty(nt_parts(line))

\* len(str(Path(line))) > 1
path_str_long(line, lib) ==
    IF lib = "posix" THEN Len(posix_str(line)) > 1
    ELSE IF lib = "nt_splitroot" /\ nt_two_seps(line) THEN TRUE
    ELSE Len(nt_str(line)) > 1

(***************************************************************************)
(* text_kind.py                                                            *)
(***************************************************************************)
\* TextKind
MAYA_DAG_PATHS == "maya_dag_paths"

FILE_PATHS == "file_paths"

PYTHON_SCRIPT == "python_script"

UNKNOWN == "unknown"

TextKind == {MAYA_DAG_PATHS, FILE_PATHS, PYTHON_SCRIPT, UNKNOWN}

RECURSIVE nonempty_stripped(_)
nonempty_stripped(lns) ==
    IF lns = <<>> THEN <<>>
    ELSE IF strip(lns[1]) = <<>> THEN nonempty_stripped(Tail(lns))
    ELSE <<strip(lns[1])>> \o nonempty_stripped(Tail(lns))

split_nonempty_lines(t) == nonempty_stripped(splitlines(t))

\* ^[A-Za-z]:[\\/]
looks_like_windows_drive_path(line) ==
    Len(line) >= 3 /\ line[1] \in Letters /\ line[2] = ":" /\ line[3] \in Seps

looks_like_posix_path(line) ==
    \/ startswith(line, <<"/">>)
    \/ startswith(line, <<".", "/">>)
    \/ startswith(line, <<".", ".", "/">>)

\* ^(?:\\\\|//)[^\\/\s]+[\\/]?
looks_like_unc_path(line) ==
    /\ startswith(line, <<"\\", "\\">>) \/ startswith(line, <<"/", "/">>)
    /\ Len(line) >= 3
    /\ line[3] \notin Seps \cup Whitespace

\* As _has_pathlike_separators, its answer inverted.
has_pathlike_separators_inverted(line) ==
    ~ \E i \in 1..Len(line) : line[i] \in Seps

\* ('\\' in line) or ('/' in line)
has_pathlike_separators(line) ==
    \E i \in 1..Len(line) : line[i] \in Seps

looks_like_file_path(line, lib) ==
    IF ~ has_pathlike_separators(line) THEN FALSE
    ELSE IF looks_like_windows_drive_path(line) THEN TRUE
    ELSE IF looks_like_unc_path(line) THEN TRUE
    ELSE IF looks_like_posix_path(line) THEN TRUE
    ELSE path_name(line, lib) # line /\ path_str_long(line, lib)

(***************************************************************************)
(* ast.parse(trimmed) on a text over Alphabet: whether it raises           *)
(* SyntaxError.  CPython's tokenizer first, then its grammar for the       *)
(* tokens these characters can make.  "a" is the one identifier character, *)
(* so no keyword can be spelled and a statement is an expression or an     *)
(* annotation.                                                             *)
(***************************************************************************)
PyNameChars == {"a"}

\* The indentation of a logical line: blanks, and backslash-newline pairs,
\* which do not end it.
RECURSIVE indent_end(_, _)
indent_end(s, j) ==
    IF j <= Len(s) /\ s[j] = " " THEN indent_end(s, j + 1)
    ELSE IF j < Len(s) /\ s[j] = "\\" /\ s[j + 1] = "\n" THEN indent_end(s, j + 2)
    ELSE j

RECURSIVE name_end(_, _)
name_end(s, j) ==
    IF j <= Len(s) /\ s[j] \in PyNameChars THEN name_end(s, j + 1) ELSE j

\* The token stream from position i; bol: at the beginning of a logical line.
\* A blank line makes no token; an indented line is an error (no statement
\* here opens a block), and so is a backslash not followed by a newline.
RECURSIVE py_tokens(_, _, _)
py_tokens(s, i, bol) ==
    IF i > Len(s) THEN <<>>
    ELSE IF bol THEN
        LET j == indent_end(s, i)
        IN  IF j > Len(s) THEN <<>>
            ELSE IF s[j] = "\n" THEN py_tokens(s, j + 1, TRUE)
            ELSE IF \E k \in i..(j - 1) : s[k] = " " THEN <<"ERRORTOKEN">>
            ELSE py_tokens(s, j, FALSE)
    ELSE CASE s[i] = " " -> py_tokens(s, i + 1, FALSE)
           [] s[i] = "\n" -> <<"NEWLINE">> \o py_tokens(s, i + 1, TRUE)
           [] s[i] = "\\" ->
                IF i < Len(s) /\ s[i + 1] = "\n" THEN py_tokens(s, i + 2, FALSE)
                ELSE <<"ERRORTOKEN">>
           [] s[i] \in PyNameChars -> <<"NAME">> \o py_tokens(s, name_end(s, i), FALSE)
           [] s[i] = "/" ->
                IF i < Len(s) /\ s[i + 1] = "/"
                THEN <<"BINOP">> \o py_tokens(s, i + 2, FALSE)
                ELSE <<"BINOP">> \o py_tokens(s, i + 1, FALSE)
           [] s[i] = "|" -> <<"BINOP">> \o py_tokens(s, i + 1, FALSE)
           [] s[i] = "." ->
                IF startswith(Tail_(s, i), <<".", ".", ".">>)
                THEN <<"ELLIPSIS">> \o py_tokens(s, i + 3, FALSE)
                ELSE <<"DOT">> \o py_tokens(s, i + 1, FALSE)
           [] s[i] = ":" -> <<"COLON">> \o py_tokens(s, i + 1, FALSE)
           [] s[i] = ";" -> <<"SEMI">> \o py_tokens(s, i + 1, FALSE)
           [] OTHER -> <<"ERRORTOKEN">>

\* The grammar, as an automaton over the tokens.  Its states:
\*   stmt    a statement may start         semi    after a ";"
\*   target  after a name or an attribute: an expression that a ":" may follow
\*   atom    after "...": an expression that is no annotation target
\*   expr    after an operand of an operator, or after an annotation
\*   tdot, edot  after the "." of an attribute of a target / of an expr
\*   operand after an operator or a ":": an operand must follow
py_step(st, tok) ==
    CASE st \in {"stmt", "semi"} /\ tok = "NAME" -> "target"
      [] st \in {"stmt", "semi"} /\ tok = "ELLIPSIS" -> "atom"
      [] st \in {"stmt", "semi"} /\ tok = "NEWLINE" -> "stmt"
      [] st \in {"target", "atom"} /\ tok = "DOT" -> "tdot"
      [] st = "tdot" /\ tok = "NAME" -> "target"
      [] st = "target" /\ tok = "COLON" -> "operand"
      [] st \in {"target", "atom", "expr"} /\ tok = "BINOP" -> "operand"
      [] st = "operand" /\ tok \in {"NAME", "ELLIPSIS"} -> "expr"
      [] st = "expr" /\ tok = "DOT" -> "edot"
      [] st = "edot" /\ tok = "NAME" -> "expr"
      [] st \in {"target", "atom", "expr"} /\ tok = "SEMI" -> "semi"
      [] st \in {"target", "atom", "expr"} /\ tok = "NEWLINE" -> "stmt"
      [] OTHER -> "SyntaxError"

RECURSIVE py_run(_, _)
py_run(st, toks) ==
    IF toks = <<>> THEN st ELSE py_run(py_step(st, toks[1]), Tail(toks))

\* ast.parse(s) returns (TRUE) or raises SyntaxError (FALSE); the tokenizer
\* ends the last line with a NEWLINE of its own.
ast_parse(s) ==
    py_run("stmt", py_tokens(s, 1, TRUE) \o <<"NEWLINE">>) = "stmt"

\* The tokens of looks_like_python_script.
code_tokens == {
    <<"\n">>, <<";">>, <<":">>,
    <<"d", "e", "f", " ">>, <<"c", "l", "a", "s", "s", " ">>,
    <<"i", "m", "p", "o", "r", "t", " ">>, <<"f", "r", "o", "m", " ">>,
    <<"w", "i", "t", "h", " ">>, <<"f", "o", "r", " ">>, <<"i", "f", " ">>}

code_hint(trimmed) == \E tok \in code_tokens : contains(trimmed, tok)

looks_like_python_script(t) ==
    LET trimmed == strip(t)
    IN  IF trimmed = <<>> THEN FALSE
        ELSE IF ast_parse(trimmed)
             THEN code_hint(trimmed) \/ contains(trimmed, <<"\n">>)
                  \/ split_count(trimmed) > 3
             ELSE FALSE

\* _MAYA_PATH_RX: ^\|?(SEG)(?:\|SEG)*$ with SEG [A-Za-z0-9_][A-Za-z0-9_:]*
maya_segments(body) ==
    /\ body # <<>>
    /\ \A i \in 1..Len(body) : body[i] \in WordChars \cup {":", "|"}
    /\ body[1] \in WordChars
    /\ body[Len(body)] # "|"
    /\ \A i \in 2..Len(body) : body[i - 1] = "|" => body[i] \in WordChars

maya_path_rx(line) ==
    LET \* $ also matches before a final newline
        upto == IF line # <<>> /\ line[Len(line)] = "\n"
                THEN SubSeq(line, 1, Len(line) - 1) ELSE line
        body == IF startswith(upto, <<"|">>) THEN Tail(upto) ELSE upto
    IN  maya_segments(body)

looks_like_maya_dag_path(line, lib) ==
    IF looks_like_file_path(line, lib) THEN FALSE
    ELSE IF contains(line, <<" ">>) \/ contains(line, <<"\t">>) THEN FALSE
    ELSE maya_path_rx(line)

\* lines[0] of an empty list raises IndexError, which classify_text does not
\* catch.
classify_text(t, lib) ==
    IF looks_like_python_script(t) THEN PYTHON_SCRIPT
    ELSE LET lines == split_nonempty_lines(t)
         IN  IF lines = <<>> THEN "IndexError"
             ELSE IF looks_like_file_path(lines[1], lib) THEN FILE_PATHS
             ELSE IF looks_like_maya_dag_path(lines[1], lib) THEN MAYA_DAG_PATHS
             ELSE UNKNOWN

(***************************************************************************)
(* maya_bundler.py: button_factory.  A BundleButton is the tuple of its    *)
(* class name, entries, icon and action; classify_text's IndexError leaves *)
(* button_factory as it is.                                                *)
(***************************************************************************)
button_factory(s, lib) ==
    LET text_kind == classify_text(s, lib)
    IN  CASE text_kind = "IndexError" -> <<"IndexError">>
          [] text_kind = FILE_PATHS ->
                <<"BundleButton", split(s, "\n"), "folder", "file_action">>
          [] text_kind = PYTHON_SCRIPT ->
                <<"BundleButton", <<s>>, "python", "script_action">>
          [] text_kind = MAYA_DAG_PATHS ->
                <<"BundleButton", split(s, "\n"), "object", "dag_action">>
          [] OTHER -> <<"None">>

(***************************************************************************)
(* grid_layout.py: GridLayout.  An item is the record getItemPosition      *)
(* gives for it, and which of QWidget and QLayout it is.                   *)
(***************************************************************************)
ItemTypes == {"QWidget", "QLayout"}

\* for i in range(self.count()): ... if bottom_row > last_row: ...
RECURSIVE last_row_scan(_, _)
last_row_scan(its, last_row) ==
    IF its = <<>> THEN last_row
    ELSE LET it == its[1]
             bottom_row == it.row + (IF it.row_span > 0 THEN it.row_span - 1 ELSE 0)
         IN  last_row_scan(Tail(its),
                           IF bottom_row > last_row THEN bottom_row ELSE last_row)

\* As get_last_filled_row, the row spans left out.
get_last_filled_row_no_span(its) ==
    IF Len(its) = 0 THEN -1
    ELSE SetMax({its[i].row : i \in 1..Len(its)})

get_last_filled_row(its) ==
    IF Len(its) = 0 THEN -1 ELSE last_row_scan(its, -1)

\* for c in range(lo, hi): if c not in occupied_columns: append
RECURSIVE append_columns(_, _, _)
append_columns(occupied, lo, hi) ==
    IF lo >= hi THEN occupied
    ELSE append_columns(
            IF \E k \in 1..Len(occupied) : occupied[k] = lo THEN occupied
            ELSE Append(occupied, lo),
            lo + 1, hi)

\* As item_in_row, with < for the first <=.
item_in_row_strictly_above(it, row) ==
    it.row < row /\ row < it.row + it.row_span

\* if item_row <= row < item_row + row_span
item_in_row(it, row) ==
    it.row <= row /\ row < it.row + it.row_span

RECURSIVE occupied_scan(_, _, _)
occupied_scan(its, row, occupied) ==
    IF its = <<>> THEN occupied
    ELSE occupied_scan(Tail(its), row,
            IF item_in_row(its[1], row)
            THEN append_columns(occupied, its[1].col, its[1].col + its[1].col_span)
            ELSE occupied)

\* expected_col = 0; for c in occupied_columns: ...
RECURSIVE first_gap(_, _)
first_gap(occupied, expected_col) ==
    IF occupied = <<>> THEN expected_col
    ELSE IF occupied[1] # expected_col THEN expected_col
    ELSE first_gap(Tail(occupied), expected_col + 1)

\* As sort, the list left as it is.
sort_forgotten(occupied) == occupied

\* occupied_columns.sort()
sort(occupied) == SortSeq(occupied, LAMBDA a, b : a < b)

get_next_column(its, row) ==
    IF Len(its) = 0 THEN 0
    ELSE LET occupied_columns == occupied_scan(its, row, <<>>)
         IN  IF occupied_columns = <<>> THEN 0
             ELSE first_gap(sort(occupied_columns), 0)

\* _add_item: addWidget or addLayout at (row, col), one cell
add_item(its, type, row, col) ==
    Append(its, [type |-> type, row |-> row, col |-> col,
                 row_span |-> 1, col_span |-> 1])

\* As next_row, without the + 1.
next_row_same_row(its) == get_last_filled_row(its)

\* add_to_next_row: row = self.get_last_filled_row() + 1
next_row(its) == get_last_filled_row(its) + 1

\* As next_column_row, without the clamp at 0.
next_column_row_unclamped(its) == get_last_filled_row(its)

\* add_to_next_column: row = self.get_last_filled_row(); if row < 0: row = 0
next_column_row(its) ==
    IF get_last_filled_row(its) < 0 THEN 0 ELSE get_last_filled_row(its)

add_to_next_row(its, type) == add_item(its, type, next_row(its), 0)

add_to_next_column(its, type) ==
    add_item(its, type, next_column_row(its),
             get_next_column(its, next_column_row(its)))

(***************************************************************************)
(* The classifier applied to a text.                                       *)
(***************************************************************************)
\* A variable of a call that has not been made.
NotCalled == "not called"

InitText ==
    /\ text \in Texts
    /\ pathlib \in Pathlibs
    /\ kind = NotCalled
    /\ button = <<NotCalled>>
    /\ items = <<>>
    /\ calls = <<>>
    /\ ret = <<NotCalled>>
    /\ query = <<>>
    /\ answer = <<>>
    /\ cur_col = 0
    /\ event = NotCalled

call_classify_text ==
    /\ kind = NotCalled
    /\ kind' = classify_text(text, pathlib)
    /\ UNCHANGED <<text, pathlib, button, items, calls, ret, query, answer,
                   cur_col, event>>

call_button_factory ==
    /\ button = <<NotCalled>>
    /\ button' = button_factory(text, pathlib)
    /\ UNCHANGED <<text, pathlib, kind, items, calls, ret, query, answer,
                   cur_col, event>>

NextText == call_classify_text \/ call_button_factory

SpecText == InitText /\ [][NextText]_vars

(***************************************************************************)
(* The queries of a layout put to a layout that holds any items (the       *)
(* layout is a QGridLayout, whose addWidget puts an item in any cell with  *)
(* any span).                                                              *)
(***************************************************************************)
BoxItems ==
    {[type |-> "QWidget", row |-> r, col |-> c, row_span |-> rs, col_span |-> cs] :
        r \in 0..MaxRow, c \in 0..MaxCol, rs \in 1..(MaxRow + 1), cs \in 1..(MaxCol + 1)}

FittingItems ==
    {it \in BoxItems : it.row + it.row_span - 1 <= MaxRow
                       /\ it.col + it.col_span - 1 <= MaxCol}

InitQuery ==
    /\ items \in UNION {[1..n -> FittingItems] : n \in 0..MaxItems}
    /\ text = <<>>
    /\ pathlib = "posix"
    /\ kind = NotCalled
    /\ button = <<NotCalled>>
    /\ calls = <<>>
    /\ ret = <<NotCalled>>
    /\ query = <<>>
    /\ answer = <<>>
    /\ cur_col = 0
    /\ event = NotCalled

call_get_last_filled_row ==
    /\ query' = <<"get_last_filled_row">>
    /\ answer' = <<get_last_filled_row(items)>>
    /\ UNCHANGED <<text, pathlib, kind, button, items, calls, ret, cur_col, event>>

call_get_next_column ==
    \E row \in 0..MaxRow :
        /\ query' = <<"get_next_column", row>>
        /\ answer' = <<get_next_column(items, row)>>
        /\ UNCHANGED <<text, pathlib, kind, button, items, calls, ret, cur_col,
                       event>>

NextQuery == call_get_last_filled_row \/ call_get_next_column

SpecQuery == InitQuery /\ [][NextQuery]_vars

(***************************************************************************)
(* The insertion methods called, one after the other, on a layout that     *)
(* starts empty.  They return nothing.                                     *)
(***************************************************************************)
InitLayout ==
    /\ items = <<>>
    /\ calls = <<>>
    /\ ret = <<NotCalled>>
    /\ text = <<>>
    /\ pathlib = "posix"
    /\ kind = NotCalled
    /\ button = <<NotCalled>>
    /\ query = <<>>
    /\ answer = <<>>
    /\ cur_col = 0
    /\ event = NotCalled

call_add_to_next_row ==
    /\ Len(calls) < MaxCalls
    /\ \E type \in ItemTypes : items' = add_to_next_row(items, type)
    /\ calls' = Append(calls, "add_to_next_row")
    /\ ret' = <<"None">>
    /\ UNCHANGED <<text, pathlib, kind, button, query, answer, cur_col, event>>

call_add_to_next_column ==
    /\ Len(calls) < MaxCalls
    /\ \E type \in ItemTypes : items' = add_to_next_column(items, type)
    /\ calls' = Append(calls, "add_to_next_column")
    /\ ret' = <<"None">>
    /\ UNCHANGED <<text, pathlib, kind, button, query, answer, cur_col, event>>

NextLayout == call_add_to_next_row \/ call_add_to_next_column

SpecLayout == InitLayout /\ [][NextLayout]_vars

(***************************************************************************)
(* window.py: BundleWindow, whose layout_main is a GridLayout and whose    *)
(* button_factory is maya_bundler's.                                       *)
(***************************************************************************)
_max_col == 10

\* The texts dropped: a blank one, a DAG path, a file path, a script and one
\* that is none of them.
DropTexts == {<<>>, <<"a">>, <<"/", "a">>, <<"a", ":", "a">>, <<";">>}

InitWindow ==
    /\ cur_col = 0
    /\ items = <<>>
    /\ calls = <<>>
    /\ ret = <<NotCalled>>
    /\ text = <<>>
    /\ pathlib \in Pathlibs
    /\ kind = NotCalled
    /\ button = <<NotCalled>>
    /\ query = <<>>
    /\ answer = <<>>
    /\ event = NotCalled

\* The drop of a mime data without text, or with the text t.
dropEvent ==
    /\ Len(items) < MaxDrops
    /\ \E hasText \in BOOLEAN, t \in DropTexts :
        IF ~ hasText
        THEN /\ event' = "ignored"
             /\ UNCHANGED <<text, button, items, calls, ret, cur_col>>
        ELSE LET made == button_factory(t, pathlib)
             IN  /\ text' = t
                 /\ button' = made
                 /\ IF made = <<"IndexError">>
                    THEN /\ event' = "IndexError"
                         /\ UNCHANGED <<items, calls, ret, cur_col>>
                    ELSE IF made = <<"None">>
                    THEN /\ event' = "returned"
                         /\ UNCHANGED <<items, calls, ret, cur_col>>
                    ELSE IF cur_col >= _max_col
                    THEN /\ cur_col' = 0
                         /\ items' = add_to_next_row(items, "QWidget")
                         /\ calls' = Append(calls, "add_to_next_row")
                         /\ ret' = <<"None">>
                         /\ event' = "accepted"
                    ELSE /\ items' = add_to_next_column(items, "QWidget")
                         /\ calls' = Append(calls, "add_to_next_column")
                         /\ ret' = <<"None">>
                         /\ cur_col' = cur_col + 1
                         /\ event' = "accepted"
    /\ UNCHANGED <<pathlib, kind, query, answer>>

NextWindow == dropEvent

SpecWindow == InitWindow /\ [][NextWindow]_vars

(***************************************************************************)
(* The claims.                                                             *)
(***************************************************************************)
no_separators(t) == \A i \in 1..Len(t) : t[i] \notin Seps

all_blank(t) == \A i \in 1..Len(t) : t[i] \in Whitespace

\* The script test, as the specification words it.
script_test(t) ==
    /\ strip(t) # <<>>
    /\ ast_parse(strip(t))
    /\ \/ code_hint(strip(t))
       \/ contains(strip(t), <<"\n">>)
       \/ split_count(strip(t)) > 3

has_first_line(t) == split_nonempty_lines(t) # <<>>

first_line(t) == split_nonempty_lines(t)[1]

precedence(t, lib) ==
    IF script_test(t) THEN PYTHON_SCRIPT
    ELSE IF has_first_line(t) /\ looks_like_file_path(first_line(t), lib)
    THEN FILE_PATHS
    ELSE IF /\ has_first_line(t)
            /\ \A i \in 1..Len(first_line(t)) : first_line(t)[i] \notin Whitespace
            /\ maya_path_rx(first_line(t))
    THEN MAYA_DAG_PATHS
    ELSE UNKNOWN

\* The columns of a row that items cover, and the smallest number not in a
\* set of numbers.
occupied_set(its, row) ==
    UNION {its[i].col..(its[i].col + its[i].col_span - 1) :
           i \in {j \in 1..Len(its) :
                    its[j].row <= row /\ row < its[j].row + its[j].row_span}}

smallest_free(S) ==
    CHOOSE n \in 0..Cardinality(S) : n \notin S /\ \A m \in 0..(n - 1) : m \in S

bottom_rows(its) == {its[i].row + its[i].row_span - 1 : i \in 1..Len(its)}

all_calls(name) == \A i \in 1..Len(calls) : calls[i] = name

slot(it) == <<it.row, it.col>>

\* C1: classify_text is total: for every text it returns a TextKind without
\* raising, and for the empty text or a text whose lines are all blank it
\* returns Unknown.
C1_TotalUnknownOnBlank ==
    kind # NotCalled =>
        /\ kind \in TextKind
        /\ all_blank(text) => kind = UNKNOWN

\* C2: classify_text returns exactly one kind, by the fixed precedence:
\* PythonScript when the script test holds, else FilePaths when the first
\* non-empty stripped line looks like a file path, else MayaDagPath when that
\* line has no whitespace and matches the DAG grammar, else Unknown.
C2_FixedPrecedence ==
    kind # NotCalled => kind = precedence(text, pathlib)

\* C3: for a text with no "/" and no "\", classify_text never returns
\* FilePaths.
C3_NoSeparatorNoFilePaths ==
    (kind # NotCalled /\ no_separators(text)) => kind # FILE_PATHS

C3_Witness ==
    /\ no_separators(text)
    /\ text = <<"|", "a", ":", "a">>
    /\ kind = MAYA_DAG_PATHS

\* C4: get_next_column(row) returns the smallest non-negative integer that is
\* not a column covered by an item whose rows include row: 1 when columns 0
\* and 2 of the row are covered, 0 on an empty grid.
C4_FirstGap ==
    (query # <<>> /\ query[1] = "get_next_column") =>
        /\ answer[1] = smallest_free(occupied_set(items, query[2]))
        /\ occupied_set(items, query[2]) = {0, 2} => answer[1] = 1
        /\ items = <<>> => answer[1] = 0

C4_Witness ==
    /\ query = <<"get_next_column", 0>>
    /\ occupied_set(items, 0) = {0, 2}
    /\ items[1].col = 2
    /\ answer = <<1>>

\* C5: get_last_filled_row returns the maximum of row + row_span - 1 over the
\* items, or -1 if the grid holds no items.
C5_LastFilledRow ==
    query = <<"get_last_filled_row">> =>
        answer[1] = IF items = <<>> THEN -1 ELSE SetMax(bottom_rows(items))

C5_Witness ==
    /\ query = <<"get_last_filled_row">>
    /\ Len(items) = 2
    /\ items[1].row = 0 /\ items[1].row_span = 2
    /\ items[2].row = 0 /\ items[2].row_span = 1
    /\ answer = <<1>>

\* C6: add_to_next_column places the item at row = max(last filled row, 0)
\* and col = the first free column of that row; from an empty grid, k calls
\* of add_to_next_column place single-cell items in row 0 at columns
\* 0, 1, ..., k-1 in call order.
C6_Placed ==
    calls' = Append(calls, "add_to_next_column") =>
        LET row == SetMax(bottom_rows(items) \cup {0})
            col == smallest_free(occupied_set(items, row))
        IN  /\ Len(items') = Len(items) + 1
            /\ slot(items'[Len(items')]) = <<row, col>>

C6_InOrder ==
    all_calls("add_to_next_column") =>
        /\ Len(items) = Len(calls)
        /\ \A i \in 1..Len(items) : slot(items[i]) = <<0, i - 1>>

C6_NextColumn == [] C6_InOrder /\ [][C6_Placed]_vars

C6_Witness ==
    /\ calls = <<"add_to_next_column", "add_to_next_column", "add_to_next_column">>
    /\ [i \in 1..3 |-> slot(items[i])] = <<<<0, 0>>, <<0, 1>>, <<0, 2>>>>

C8_Entries ==
    button # <<NotCalled>> =>
        LET text_kind == classify_text(text, pathlib)
        IN  /\ text_kind \in {FILE_PATHS, MAYA_DAG_PATHS} =>
                /\ button[1] = "BundleButton"
                /\ \A i \in 1..Len(button[2]) : ~ all_blank(button[2][i])
                /\ [i \in 1..Len(button[2]) |-> strip(button[2][i])]
                        = split_nonempty_lines(text)
            /\ text_kind = PYTHON_SCRIPT =>
                button[1] = "BundleButton" /\ button[2] = <<text>>
            /\ text_kind = UNKNOWN => button = <<"None">>

\* C9: from an empty grid, after any sequence of add_to_next_row and
\* add_to_next_column calls with single-cell items, no two items are in the
\* same slot, and an insertion leaves the items placed before it where they
\* were.
C9_NoOverlap ==
    \A i, j \in 1..Len(items) : slot(items[i]) = slot(items[j]) => i = j

C9_Kept ==
    /\ Len(items') >= Len(items)
    /\ \A i \in 1..Len(items) : items'[i] = items[i]

C9_DistinctSlots == [] C9_NoOverlap /\ [][C9_Kept]_vars

C9_Witness ==
    /\ calls = <<"add_to_next_column", "add_to_next_column", "add_to_next_row",
                 "add_to_next_column", "add_to_next_row">>
    /\ [i \in 1..5 |-> slot(items[i])]
            = <<<<0, 0>>, <<0, 1>>, <<1, 0>>, <<1, 1>>, <<2, 0>>>>

\* C10: in BundleWindow, after any sequence of drops, no row of the grid
\* holds more than _max_col buttons and 0 <= _cur_col <= _max_col; a drop for
\* which the factory returns no button changes neither the grid nor _cur_col.
C10_RowsFit ==
    /\ \A r \in {items[i].row : i \in 1..Len(items)} :
            Cardinality({i \in 1..Len(items) : items[i].row = r}) <= _max_col
    /\ 0 <= cur_col /\ cur_col <= _max_col

C10_NoButtonNoChange ==
    button' = <<"None">> => (items' = items /\ cur_col' = cur_col)

C10_ColumnLimit == [] C10_RowsFit /\ [][C10_NoButtonNoChange]_vars

====
